---------------------------- MODULE Spec2Model ----------------------------
(***************************************************************************)
(* A model of the lupat crate (Lua string patterns for Rust).              *)
(*                                                                         *)
(* src/src/lib.rs (the Pattern handle, gsub, gmatch, the replacement       *)
(* compiler) is translated from its code.  The `pattern` module it uses    *)
(* (str_check, str_match, LuaMatch) is modelled after the design           *)
(* document, sections 4.1 and 4.2, following the Lua matcher it describes. *)
(*                                                                         *)
(* Bytes are one-character strings; a byte string is a sequence of them.   *)
(* Offsets into a subject are 0-based, as in the code.                     *)
(***************************************************************************)
EXTENDS Integers, Sequences, FiniteSets, TLC

(***************************************************************************)
(* Bounds of the model.                                                    *)
(***************************************************************************)
\* longest raw pattern enumerated for the validator
MaxPatLen == 4
\* most pattern items concatenated into a pattern for the matcher
MaxItems == 3
\* longest subject
MaxSubj == 2
\* largest capture capacity (the const generic MAXCAPTURES)
MaxCap == 3
\* recursion limit of the matcher (Lua uses 200), scaled to the patterns above
MAXCCALLS == 5
\* longest output gsub may build before the model stops following it
MaxOut == 4
\* most items a gmatch iterator is asked for
MaxYield == 3

(***************************************************************************)
(* Bytes and their classes.                                                *)
(***************************************************************************)
NUL == "\\0"
LowerBytes == {"a", "b", "c", "d", "f", "g", "l", "o", "p", "s", "u", "w", "x"}
UpperBytes == {"A", "C", "D", "G", "L", "P", "S", "U", "W", "X"}
DigitSeq == <<"0", "1", "2", "3", "4", "5", "6", "7", "8", "9">>
DigitBytes == {DigitSeq[i] : i \in 1..10}
PunctBytes == {"%", "(", ")", "[", "]", ".", "*", "+", "-", "?", "^", "$", "<", ">"}
SpaceBytes == {" "}
HexBytes == DigitBytes \cup {"a", "b", "c", "d", "f", "A", "C", "D"}

DigitVal(c) == (CHOOSE i \in 1..10 : DigitSeq[i] = c) - 1

\* ASCII codes, for the ranges of a class set
Ord(c) ==
  CASE c = NUL -> 0
    [] c = " " -> 32 [] c = "$" -> 36 [] c = "%" -> 37 [] c = "(" -> 40
    [] c = ")" -> 41 [] c = "*" -> 42 [] c = "+" -> 43 [] c = "-" -> 45
    [] c = "." -> 46 [] c = "<" -> 60 [] c = ">" -> 62 [] c = "?" -> 63
    [] c = "[" -> 91 [] c = "]" -> 93 [] c = "^" -> 94
    [] c \in DigitBytes -> 48 + DigitVal(c)
    [] c = "A" -> 65 [] c = "C" -> 67 [] c = "D" -> 68 [] c = "G" -> 71
    [] c = "L" -> 76 [] c = "P" -> 80 [] c = "S" -> 83 [] c = "U" -> 85
    [] c = "W" -> 87 [] c = "X" -> 88
    [] c = "a" -> 97 [] c = "b" -> 98 [] c = "c" -> 99 [] c = "d" -> 100
    [] c = "f" -> 102 [] c = "g" -> 103 [] c = "l" -> 108 [] c = "o" -> 111
    [] c = "p" -> 112
    [] c = "s" -> 115 [] c = "u" -> 117 [] c = "w" -> 119 [] c = "x" -> 120

ToLower(c) ==
  CASE c = "A" -> "a" [] c = "C" -> "c" [] c = "D" -> "d" [] c = "G" -> "g"
    [] c = "L" -> "l" [] c = "P" -> "p" [] c = "S" -> "s" [] c = "U" -> "u"
    [] c = "W" -> "w" [] c = "X" -> "x" [] OTHER -> c

\* the byte at 0-based offset i
At(s, i) == s[i + 1]
\* the bytes of s in the 0-based range [from, to)
Slice(s, from, to) == SubSeq(s, from + 1, to)

(***************************************************************************)
(* Errors (src/src/error.rs).                                              *)
(***************************************************************************)
Ok == [kind |-> "Ok", n |-> 0]
Err(k) == [kind |-> k, n |-> 0]
InvalidCapture(n) == [kind |-> "InvalidCapture", n |-> n]

(***************************************************************************)
(* The validator, str_check::<N>(p): one scan from left to right over the  *)
(* pattern.  caps holds one entry per capture opened so far, "open" or     *)
(* "closed"; i is the 1-based index of the next byte.                      *)
(***************************************************************************)
\* the index after the class set whose "[" is at i - 1, or 0 when it is not closed
RECURSIVE set_body_end(_, _)
set_body_end(p, i) ==
  IF i > Len(p) THEN 0
  ELSE LET j == IF p[i] = "%" /\ i + 1 <= Len(p) THEN i + 2 ELSE i + 1
       IN  IF j <= Len(p) /\ p[j] = "]" THEN j + 1 ELSE set_body_end(p, j)

set_end(p, i) ==
  set_body_end(p, IF i <= Len(p) /\ p[i] = "^" THEN i + 1 ELSE i)

\* index of the most recently opened capture that is still open, or 0
last_open(caps) ==
  LET open == {l \in 1..Len(caps) : caps[l] = "open"}
  IN  IF open = {} THEN 0 ELSE CHOOSE l \in open : \A m \in open : m <= l

RECURSIVE check_from(_, _, _, _)
check_from(p, i, caps, N) ==
  IF i > Len(p)
  THEN IF last_open(caps) # 0 THEN Err("UnfinishedCapture") ELSE Ok
  ELSE
    LET c == p[i] IN
    CASE c = "%" ->
           IF i = Len(p) THEN Err("EndsWithPercent")
           ELSE LET d == p[i + 1] IN
             CASE d = "b" ->
                    IF i + 3 > Len(p) THEN Err("MissingBalanceArgs")
                    ELSE check_from(p, i + 4, caps, N)
               [] d = "f" ->
                    IF i + 2 > Len(p) \/ p[i + 2] # "[" THEN Err("MissingLBracketF")
                    ELSE LET e == set_end(p, i + 3)
                         IN  IF e = 0 THEN Err("MissingEndBracket")
                             ELSE check_from(p, e, caps, N)
               [] d \in DigitBytes \ {"0"} ->
                    LET n == DigitVal(d)
                    IN  IF n > Len(caps) \/ caps[n] = "open"
                        THEN InvalidCapture(n)
                        ELSE check_from(p, i + 2, caps, N)
               [] OTHER -> check_from(p, i + 2, caps, N)
      [] c = "[" ->
           LET e == set_end(p, i + 1)
           IN  IF e = 0 THEN Err("MissingEndBracket") ELSE check_from(p, e, caps, N)
      [] c = "(" ->
           IF Len(caps) + 1 > N THEN Err("TooManyCaptures")
           ELSE IF i + 1 <= Len(p) /\ p[i + 1] = ")"
                THEN check_from(p, i + 2, Append(caps, "closed"), N)
                ELSE check_from(p, i + 1, Append(caps, "open"), N)
      [] c = ")" ->
           LET l == last_open(caps)
           IN  IF l = 0 THEN Err("NoOpenCapture")
               ELSE check_from(p, i + 1, [caps EXCEPT ![l] = "closed"], N)
      [] OTHER -> check_from(p, i + 1, caps, N)

str_check(p, N) == check_from(p, 1, <<>>, N)

(***************************************************************************)
(* The interpreter, str_match::<N>(s, p, mm): the backtracking matcher of  *)
(* section 4.2.  A result is Found (end offset and capture stack),         *)
(* NoMatch, or Failed (a runtime condition).  The capture stack holds one  *)
(* [init, len] per user capture; len is a length or one of the sentinels.  *)
(***************************************************************************)
CAP_UNFINISHED == -1
CAP_POSITION == -2

Found(e, caps) == [tag |-> "found", e |-> e, caps |-> caps, err |-> Ok]
NoMatch == [tag |-> "nomatch", e |-> 0, caps |-> <<>>, err |-> Ok]
Failed(err) == [tag |-> "failed", e |-> 0, caps |-> <<>>, err |-> err]

ClassLetters == {"a", "c", "d", "g", "l", "p", "s", "u", "w", "x"}

\* does byte c belong to the class %cl
match_class(c, cl) ==
  LET l == ToLower(cl)
      in == CASE l = "a" -> c \in LowerBytes \cup UpperBytes
              [] l = "c" -> c = NUL
              [] l = "d" -> c \in DigitBytes
              [] l = "g" -> c \in LowerBytes \cup UpperBytes \cup DigitBytes \cup PunctBytes
              [] l = "l" -> c \in LowerBytes
              [] l = "p" -> c \in PunctBytes
              [] l = "s" -> c \in SpaceBytes
              [] l = "u" -> c \in UpperBytes
              [] l = "w" -> c \in LowerBytes \cup UpperBytes \cup DigitBytes
              [] l = "x" -> c \in HexBytes
              [] OTHER -> FALSE
  IN  IF l \notin ClassLetters THEN cl = c
      ELSE IF cl \in UpperBytes THEN ~in ELSE in

\* scan of a set body: i is the index of the next member, ec that of the closing "]"
RECURSIVE set_scan(_, _, _, _)
set_scan(c, p, i, ec) ==
  IF i >= ec THEN FALSE
  ELSE IF p[i] = "%" THEN match_class(c, p[i + 1]) \/ set_scan(c, p, i + 2, ec)
  ELSE IF p[i + 1] = "-" /\ i + 2 < ec
       THEN (Ord(p[i]) <= Ord(c) /\ Ord(c) <= Ord(p[i + 2])) \/ set_scan(c, p, i + 3, ec)
  ELSE p[i] = c \/ set_scan(c, p, i + 1, ec)

\* the set whose "[" is at index i and whose "]" is at index ec
matchbracketclass(c, p, i, ec) ==
  IF p[i + 1] = "^" THEN ~set_scan(c, p, i + 2, ec) ELSE set_scan(c, p, i + 1, ec)

\* the index after the single item that starts at pi
classEnd(p, pi) ==
  CASE p[pi] = "%" -> pi + 2
    [] p[pi] = "[" -> set_end(p, pi + 1)
    [] OTHER -> pi + 1

\* does the item p[pi .. ep-1] match the byte of s at offset si
singlematch(s, si, p, pi, ep) ==
  IF si >= Len(s) THEN FALSE
  ELSE LET c == At(s, si) IN
    CASE p[pi] = "." -> TRUE
      [] p[pi] = "%" -> match_class(c, p[pi + 1])
      [] p[pi] = "[" -> matchbracketclass(c, p, pi, ep - 1)
      [] OTHER -> p[pi] = c

\* the pattern byte at index i, NUL past the end
PAt(p, i) == IF i <= Len(p) THEN p[i] ELSE NUL
\* the subject byte at offset i, NUL outside the subject
SAt(s, i) == IF i >= 0 /\ i < Len(s) THEN At(s, i) ELSE NUL

\* %bxy at offset si: the offset after the balancing y, or -1
RECURSIVE balance_scan(_, _, _, _, _)
balance_scan(s, i, b, e, cont) ==
  IF i >= Len(s) THEN -1
  ELSE IF At(s, i) = e
       THEN IF cont = 1 THEN i + 1 ELSE balance_scan(s, i + 1, b, e, cont - 1)
  ELSE IF At(s, i) = b THEN balance_scan(s, i + 1, b, e, cont + 1)
  ELSE balance_scan(s, i + 1, b, e, cont)

matchbalance(s, si, b, e) ==
  IF si >= Len(s) \/ At(s, si) # b THEN -1 ELSE balance_scan(s, si + 1, b, e, 1)

\* how many consecutive bytes from offset si the item matches
RECURSIVE max_run(_, _, _, _, _)
max_run(s, si, p, pi, ep) ==
  IF singlematch(s, si, p, pi, ep) THEN 1 + max_run(s, si + 1, p, pi, ep) ELSE 0

RECURSIVE match_init(_, _, _, _, _, _, _)
RECURSIVE max_try(_, _, _, _, _, _, _, _)
RECURSIVE min_expand(_, _, _, _, _, _, _, _)
RECURSIVE match_from(_, _, _, _, _, _, _)

\* one (recursive) call of the matcher; d calls may still be nested
do_match(s, p, N, si, pi, caps, d) ==
  IF d = 0 THEN Failed(Err("TooComplex"))
  ELSE match_init(s, p, N, si, pi, caps, d - 1)

start_capture(s, p, N, si, pi, caps, d, what) ==
  IF Len(caps) + 1 >= N THEN Failed(Err("TooManyCaptures"))
  ELSE do_match(s, p, N, si, pi, Append(caps, [init |-> si, len |-> what]), d)

end_capture(s, p, N, si, pi, caps, d) ==
  LET open == {l \in 1..Len(caps) : caps[l].len = CAP_UNFINISHED}
  IN  IF open = {} THEN Failed([kind |-> "InvalidCapture", n |-> -1])
      ELSE LET l == CHOOSE l \in open : \A m \in open : m <= l
           IN  do_match(s, p, N, si, pi,
                        [caps EXCEPT ![l].len = si - caps[l].init], d)

\* greedy: r is the rest of the pattern after i items; one item fewer on failure
max_next(r, s, p, N, si, ep, caps, d, i) ==
  IF r.tag = "nomatch" THEN max_try(s, p, N, si, ep, caps, d, i - 1) ELSE r

max_try(s, p, N, si, ep, caps, d, i) ==
  IF i < 0 THEN NoMatch
  ELSE max_next(do_match(s, p, N, si + i, ep + 1, caps, d), s, p, N, si, ep, caps, d, i)

\* max_expand trying the rest of the pattern first, as min_expand does
max_expand_lazy(s, p, N, si, pi, ep, caps, d) ==
  min_expand(s, p, N, si, pi, ep, caps, d)

max_expand(s, p, N, si, pi, ep, caps, d) ==
  max_try(s, p, N, si, ep, caps, d, max_run(s, si, p, pi, ep))

\* lazy: r is the rest of the pattern tried first; one more item on failure
min_next(r, s, p, N, si, pi, ep, caps, d) ==
  IF r.tag # "nomatch" THEN r
  ELSE IF singlematch(s, si, p, pi, ep)
       THEN min_expand(s, p, N, si + 1, pi, ep, caps, d)
       ELSE NoMatch

min_expand(s, p, N, si, pi, ep, caps, d) ==
  min_next(do_match(s, p, N, si, ep + 1, caps, d), s, p, N, si, pi, ep, caps, d)

\* %l at offset si: the offset after the repeated capture, -1, or a failure
match_capture(s, si, caps, l) ==
  IF l > Len(caps) \/ caps[l].len = CAP_UNFINISHED THEN Failed(InvalidCapture(l))
  ELSE IF caps[l].len = CAP_POSITION THEN Failed(Err("CapLen"))
  ELSE LET len == caps[l].len
       IN  IF Len(s) - si >= len
              /\ Slice(s, caps[l].init, caps[l].init + len) = Slice(s, si, si + len)
           THEN Found(si + len, caps)
           ELSE NoMatch

\* "?": r is the rest after taking the item; the rest without it on failure
optional_next(r, s, p, N, si, ep, caps, d) ==
  IF r.tag # "nomatch" THEN r ELSE match_init(s, p, N, si, ep + 1, caps, d)

\* a back-reference: r is what match_capture made of it
backref_next(r, s, p, N, pi, caps, d) ==
  IF r.tag = "found" THEN match_init(s, p, N, r.e, pi + 2, caps, d) ELSE r

\* %bxy: e is what matchbalance made of it
balance_next(e, s, p, N, pi, caps, d) ==
  IF e = -1 THEN NoMatch ELSE match_init(s, p, N, e, pi + 4, caps, d)

\* a single item and its quantifier: ep is the index after the item
match_single(s, p, N, si, pi, ep, caps, d) ==
  LET q == PAt(p, ep)
  IN  IF ~singlematch(s, si, p, pi, ep)
      THEN IF q \in {"*", "?", "-"}
           THEN match_init(s, p, N, si, ep + 1, caps, d)
           ELSE NoMatch
      ELSE CASE q = "?" ->
                  optional_next(do_match(s, p, N, si + 1, ep + 1, caps, d),
                                s, p, N, si, ep, caps, d)
             [] q = "+" -> max_expand(s, p, N, si + 1, pi, ep, caps, d)
             [] q = "*" -> max_expand(s, p, N, si, pi, ep, caps, d)
             [] q = "-" -> min_expand(s, p, N, si, pi, ep, caps, d)
             [] OTHER -> match_init(s, p, N, si + 1, ep, caps, d)

\* %f[set]: ep is the index after the set
match_frontier(s, p, N, si, ep, pi, caps, d) ==
  IF ~matchbracketclass(SAt(s, si - 1), p, pi + 2, ep - 1)
     /\ matchbracketclass(SAt(s, si), p, pi + 2, ep - 1)
  THEN match_init(s, p, N, si, ep, caps, d)
  ELSE NoMatch

\* the body of the matcher: dispatch on the pattern at index pi
match_init(s, p, N, si, pi, caps, d) ==
  IF pi > Len(p) THEN Found(si, caps)
  ELSE
    CASE p[pi] = "(" ->
           IF PAt(p, pi + 1) = ")"
           THEN start_capture(s, p, N, si, pi + 2, caps, d, CAP_POSITION)
           ELSE start_capture(s, p, N, si, pi + 1, caps, d, CAP_UNFINISHED)
      [] p[pi] = ")" -> end_capture(s, p, N, si, pi + 1, caps, d)
      [] p[pi] = "$" /\ pi = Len(p) ->
           IF si = Len(s) THEN Found(si, caps) ELSE NoMatch
      [] p[pi] = "%" /\ PAt(p, pi + 1) = "b" ->
           balance_next(matchbalance(s, si, p[pi + 2], p[pi + 3]), s, p, N, pi, caps, d)
      [] p[pi] = "%" /\ PAt(p, pi + 1) = "f" ->
           match_frontier(s, p, N, si, set_end(p, pi + 3), pi, caps, d)
      [] p[pi] = "%" /\ PAt(p, pi + 1) \in DigitBytes \ {"0"} ->
           backref_next(match_capture(s, si, caps, DigitVal(p[pi + 1])),
                        s, p, N, pi, caps, d)
      [] OTHER -> match_single(s, p, N, si, pi, classEnd(p, pi), caps, d)

\* the slot of user capture c after a successful match
slot_of(c) ==
  [start |-> c.init, end |-> IF c.len = CAP_POSITION THEN c.init ELSE c.init + c.len]

\* r is the attempt at offset s1; the next offset when it found nothing
attempt_next(r, s, p, N, mm, s1, p1, anchor) ==
  CASE r.tag = "failed" -> [res |-> r.err, n |-> 0, mm |-> mm]
    [] r.tag = "found" ->
         IF \E l \in 1..Len(r.caps) : r.caps[l].len = CAP_UNFINISHED
         THEN [res |-> Err("CapLen"), n |-> 0, mm |-> mm]
         ELSE [res |-> Ok, n |-> 1 + Len(r.caps),
               mm |-> [i \in 1..N |->
                         IF i = 1 THEN [start |-> s1, end |-> r.e]
                         ELSE IF i - 1 <= Len(r.caps) THEN slot_of(r.caps[i - 1])
                         ELSE mm[i]]]
    [] OTHER ->
         IF s1 < Len(s) /\ ~anchor
         THEN match_from(s, p, N, mm, s1 + 1, p1, anchor)
         ELSE [res |-> Ok, n |-> 0, mm |-> mm]

\* the attempts at offsets s1, s1 + 1, ... of the subject
match_from(s, p, N, mm, s1, p1, anchor) ==
  attempt_next(do_match(s, p, N, s1, p1, <<>>, MAXCCALLS), s, p, N, mm, s1, p1, anchor)

\* str_match: the leftmost match of p in s; res is Ok with the count n, or an error
anchored(p) == Len(p) > 0 /\ p[1] = "^"

str_match(s, p, N, mm) ==
  match_from(s, p, N, mm, 0, IF anchored(p) THEN 2 ELSE 1, anchored(p))

(***************************************************************************)
(* The Pattern handle and its operations (src/src/lib.rs).  A panic of the *)
(* Rust code is a value: "expect" (Result::expect on an Err), "index" (an  *)
(* array index out of bounds), "slice" (a slice range outside the text).   *)
(***************************************************************************)
NoPanic == [kind |-> "none", err |-> Ok]
Panic(k, e) == [kind |-> k, err |-> e]

ZeroSlots(N) == [i \in 1..N |-> [start |-> 0, end |-> 0]]

\* try_from_bytes with the "?" after str_check dropping an InvalidCapture
try_from_bytes_no_refs(r, N) ==
  IF r # Ok /\ r.kind # "InvalidCapture"
  THEN [ok |-> FALSE, err |-> r, matches |-> <<>>, n_match |-> 0]
  ELSE [ok |-> TRUE, err |-> Ok, matches |-> ZeroSlots(N), n_match |-> 0]

\* try_from_bytes with the "?" after str_check dropping an UnfinishedCapture
try_from_bytes_no_end(r, N) ==
  IF r # Ok /\ r.kind # "UnfinishedCapture"
  THEN [ok |-> FALSE, err |-> r, matches |-> <<>>, n_match |-> 0]
  ELSE [ok |-> TRUE, err |-> Ok, matches |-> ZeroSlots(N), n_match |-> 0]

\* Pattern::try_from_bytes / Pattern::new: r is what str_check returned
try_from_bytes(r, N) ==
  IF r # Ok THEN [ok |-> FALSE, err |-> r, matches |-> <<>>, n_match |-> 0]
  ELSE [ok |-> TRUE, err |-> Ok, matches |-> ZeroSlots(N), n_match |-> 0]

\* Pattern::matches_bytes / Pattern::matches: r is what str_match returned for
\* the handle whose count was nm
matches_bytes(r, nm) ==
  IF r.res # Ok
  THEN [panic |-> Panic("expect", r.res), matches |-> r.mm, n_match |-> nm]
  ELSE [panic |-> NoPanic, matches |-> r.mm, n_match |-> r.n]

\* self.matches(s) on the handle (p, N, mm, nm)
matches_call(p, N, mm, nm, s) == matches_bytes(str_match(s, p, N, mm), nm)

\* capture reading the end one byte too far
capture_wide(mm, i) == [start |-> mm[i + 1].start, end |-> mm[i + 1].end + 1]

\* Pattern::capture(i), for i inside the table
capture(mm, i) == [start |-> mm[i + 1].start, end |-> mm[i + 1].end]

\* Pattern::first_capture
first_capture(mm, nm) == capture(mm, IF nm > 1 THEN 1 ELSE 0)

\* &txt[r]: the slice of a text by a range
index_text(txt, r) ==
  IF r.start <= r.end /\ r.end <= Len(txt)
  THEN [panic |-> NoPanic, s |-> Slice(txt, r.start, r.end)]
  ELSE [panic |-> Panic("slice", Ok), s |-> <<>>]

\* Captures::get(i): &text[m.capture(i)]
get(mm, txt, i) ==
  IF i >= Len(mm) THEN [panic |-> Panic("index", Ok), s |-> <<>>]
  ELSE index_text(txt, capture(mm, i))

\* the loop of Pattern::capture_into over slots i, i + 1, ..., nm - 1
RECURSIVE capture_loop(_, _, _, _, _)
capture_push(g, mm, nm, txt, i, vec) ==
  IF g.panic # NoPanic THEN [panic |-> g.panic, vec |-> vec]
  ELSE capture_loop(mm, nm, txt, i + 1, Append(vec, g.s))

capture_loop(mm, nm, txt, i, vec) ==
  IF i >= nm THEN [panic |-> NoPanic, vec |-> vec]
  ELSE capture_push(get(mm, txt, i), mm, nm, txt, i, vec)

\* Pattern::capture_into: m is what self.matches(txt) made of the handle
capture_into(m, txt) ==
  IF m.panic # NoPanic THEN [panic |-> m.panic, vec |-> <<>>]
  ELSE capture_loop(m.matches, m.n_match, txt, 0, <<>>)

(***************************************************************************)
(* The replacement compiler and applier.                                   *)
(***************************************************************************)
SubstText(s) == [kind |-> "Text", s |-> s, i |-> 0]
SubstCapture(i) == [kind |-> "Capture", s |-> <<>>, i |-> i]

\* the pattern "%%([%%%d])" of generate_gsub_patterns, a Pattern<2>
GsubPattern == <<"%", "%", "(", "[", "%", "%", "%", "d", "]", ")">>
GsubPatternCap == 2

\* the items one match of GsubPattern adds: the text before it, then "%" or a capture
gsub_pattern_items(res, before, captured) ==
  (IF before # <<>> THEN Append(res, SubstText(before)) ELSE res)
    \o << IF captured = <<"%">> THEN SubstText(<<"%">>)
          ELSE SubstCapture(DigitVal(captured[1])) >>

\* the loop of generate_gsub_patterns on the rest of the template
RECURSIVE gsub_patterns_loop(_, _, _)
gsub_patterns_next(m, slice, res) ==
  IF m.panic # NoPanic THEN [panic |-> m.panic, err |-> Ok, repl |-> res]
  ELSE IF m.n_match = 0
       THEN [panic |-> NoPanic, err |-> Ok, repl |-> Append(res, SubstText(slice))]
  ELSE gsub_patterns_loop(
         m.matches,
         Slice(slice, capture(m.matches, 0).end, Len(slice)),
         gsub_pattern_items(res, Slice(slice, 0, capture(m.matches, 0).start),
                            Slice(slice, capture(m.matches, 1).start,
                                  capture(m.matches, 1).end)))

gsub_patterns_loop(mm, slice, res) ==
  gsub_patterns_next(matches_call(GsubPattern, GsubPatternCap, mm, 0, slice), slice, res)

\* h is the handle Pattern::new made of GsubPattern
gsub_patterns_from(h, repl) ==
  IF ~h.ok THEN [panic |-> NoPanic, err |-> h.err, repl |-> <<>>]
  ELSE gsub_patterns_loop(h.matches, repl, <<>>)

generate_gsub_patterns(repl) ==
  gsub_patterns_from(try_from_bytes(str_check(GsubPattern, GsubPatternCap),
                                    GsubPatternCap), repl)

\* the "for r in &repl" loop of gsub and of Substitute::subst, from item k on
RECURSIVE subst_loop(_, _, _, _, _)
subst_next(g, repl, k, mm, txt, res) ==
  IF g.panic # NoPanic THEN [panic |-> g.panic, res |-> res]
  ELSE subst_loop(repl, k + 1, mm, txt, res \o g.s)

subst_loop(repl, k, mm, txt, res) ==
  IF k > Len(repl) THEN [panic |-> NoPanic, res |-> res]
  ELSE IF repl[k].kind = "Text" THEN subst_loop(repl, k + 1, mm, txt, res \o repl[k].s)
  ELSE subst_next(get(mm, txt, repl[k].i), repl, k, mm, txt, res)

\* Substitute::subst
subst(repl, mm, txt) == subst_loop(repl, 1, mm, txt, <<>>)

\* where the rest of the text starts after a match ending at offset e
advance(slice, e) == Slice(slice, e, Len(slice))

\* the body of the loop of gsub: r is the output with the replacement appended
gsub_body(m, r, slice) ==
  [panic |-> r.panic, matched |-> TRUE, matches |-> m.matches, n_match |-> m.n_match,
   slice |-> IF r.panic = NoPanic THEN advance(slice, capture(m.matches, 0).end)
             ELSE slice,
   res |-> r.res]

\* gsub_iter without res.push_str(&slice[0..all.start])
gsub_iter_no_prefix(m, slice, res, repl) ==
  IF m.panic # NoPanic \/ m.n_match = 0
  THEN [panic |-> m.panic, matched |-> FALSE, matches |-> m.matches,
        n_match |-> m.n_match, slice |-> slice,
        res |-> IF m.panic = NoPanic THEN res \o slice ELSE res]
  ELSE gsub_body(m, subst_loop(repl, 1, m.matches, slice, res), slice)

\* one test of the loop condition of gsub and, on a match, one run of its body:
\* m is what self.matches(slice) made of the handle
gsub_iter(m, slice, res, repl) ==
  IF m.panic # NoPanic \/ m.n_match = 0
  THEN [panic |-> m.panic, matched |-> FALSE, matches |-> m.matches,
        n_match |-> m.n_match, slice |-> slice,
        res |-> IF m.panic = NoPanic THEN res \o slice ELSE res]
  ELSE gsub_body(m, subst_loop(repl, 1, m.matches, slice,
                               res \o Slice(slice, 0, capture(m.matches, 0).start)),
                 slice)

\* the Some branch of GMatch::next: f is &text[first_capture()]
gmatch_some(m, f, txt) ==
  [panic |-> f.panic, some |-> f.panic = NoPanic, matches |-> m.matches,
   n_match |-> m.n_match,
   text |-> IF f.panic = NoPanic THEN advance(txt, capture(m.matches, 0).end) ELSE txt,
   item |-> f.s]

\* GMatch::next: m is what self.m.matches(self.text) made of the handle
gmatch_next(m, txt) ==
  IF m.panic # NoPanic \/ m.n_match = 0
  THEN [panic |-> m.panic, some |-> FALSE, matches |-> m.matches,
        n_match |-> m.n_match, text |-> txt, item |-> <<>>]
  ELSE gmatch_some(m, index_text(txt, first_capture(m.matches, m.n_match)), txt)

(***************************************************************************)
(* The inputs the specifications draw from.                                *)
(***************************************************************************)
Seqs(A, n) == UNION {[1..k -> A] : k \in 0..n}

RECURSIVE Flat(_)
Flat(q) == IF q = <<>> THEN <<>> ELSE Head(q) \o Flat(Tail(q))

\* the patterns of the test bad_patterns (src/tests/main.rs)
BadPatterns ==
  { <<"%">>,
    <<"(", "d", "o", "g", "%", "(">>,
    <<"[", "%", "a", "%", "[">>,
    <<"(", "(", ")">>,
    <<"[", "%", "A">>,
    <<"(", "1", ")", " ", "(", "2", "(", "3", ")", "%", "2", ")", "%", "1">> }

\* raw byte strings for the validator
RawBytes == {"(", ")", "%", "1", "2", "a", "["}
RawPatterns == Seqs(RawBytes, MaxPatLen) \cup BadPatterns

\* patterns built from items, for the matcher
CaptureItems ==
  { <<"a">>, <<"a", "*">>, <<"(">>, <<")">>, <<"(", ")">>, <<"%", "1">>, <<"b", "?">> }
CapturePatterns == {Flat(q) : q \in Seqs(CaptureItems, MaxItems)}

QuantItems ==
  { <<"a">>, <<"b">>, <<".">>, <<"*">>, <<"+">>, <<"-">>, <<"?">>, <<"$">> }
QuantPatterns == {Flat(q) : q \in Seqs(QuantItems, MaxItems + 1)}

GlobalItems ==
  { <<"a">>, <<"a", "*">>, <<"b", "+">>, <<"(", "a", ")">>, <<"(", ")">> }
GlobalPatterns == {Flat(q) : q \in Seqs(GlobalItems, MaxItems - 1)}

Subjects == Seqs({"a", "b"}, MaxSubj)

\* replacement templates
Templates ==
  { <<"%", "0">>, <<"%", "1">>, <<"%", "2">>, <<"x">>, <<"%", "%">>, <<"<", "%", "0", ">">> }

(***************************************************************************)
(* The state: a caller holding one pattern handle.                         *)
(***************************************************************************)
VARIABLES
  patt,      \* the pattern bytes given to Pattern::new
  cap,       \* the capture capacity N (MAXCAPTURES)
  handle,    \* "none" before Pattern::new, then "ok" or "err"
  err,       \* the error Pattern::new returned
  matches,   \* Pattern::matches, the slot table
  n_match,   \* Pattern::n_match
  text,      \* the subject of the latest call of matches
  panic,     \* NoPanic, or the panic that ended the program
  out,       \* what the latest accessor returned
  gs,        \* a running gsub: its locals, whether it has applied the template
             \* to a match (applied) and whether a match was zero-width (zero)
  gm         \* a gmatch iterator: its text and what it has yielded so far

vars == <<patt, cap, handle, err, matches, n_match, text, panic, out, gs, gm>>

GsIdle == [pc |-> "idle", subject |-> <<>>, tmpl |-> <<>>, repl |-> <<>>,
           slice |-> <<>>, res |-> <<>>, applied |-> FALSE, zero |-> FALSE]
GmIdle == [pc |-> "idle", subject |-> <<>>, text |-> <<>>, yields |-> <<>>]
NoOut == [op |-> "none", val |-> <<>>]

InitWith(P) ==
  /\ patt \in P
  /\ cap \in 1..MaxCap
  /\ handle = "none"
  /\ err = Ok
  /\ matches = <<>>
  /\ n_match = 0
  /\ text = <<>>
  /\ panic = NoPanic
  /\ out = NoOut
  /\ gs = GsIdle
  /\ gm = GmIdle

\* the handle exists, the program runs and no gsub or gmatch borrows the handle;
\* the locals of a call that returned are dropped when the next call starts
Ready == handle = "ok" /\ panic = NoPanic /\ gs.pc # "loop" /\ gm.pc # "iter"

\* the handle after a call of matches
SetHandle(m) ==
  /\ matches' = m.matches
  /\ n_match' = m.n_match
  /\ panic' = m.panic

\* Pattern::new(patt)
SetNew(h) ==
  /\ handle' = IF h.ok THEN "ok" ELSE "err"
  /\ err' = h.err
  /\ matches' = h.matches
  /\ n_match' = h.n_match

New ==
  /\ handle = "none"
  /\ SetNew(try_from_bytes(str_check(patt, cap), cap))
  /\ UNCHANGED <<patt, cap, text, panic, out, gs, gm>>

\* Pattern::matches(s)
Matches ==
  /\ Ready
  /\ \E s \in Subjects :
       /\ text' = s
       /\ SetHandle(matches_call(patt, cap, matches, n_match, s))
  /\ out' = [op |-> "matches", val |-> <<>>]
  /\ gs' = GsIdle /\ gm' = GmIdle
  /\ UNCHANGED <<patt, cap, handle, err>>

\* Pattern::capture_into(s, vec)
SetCaptureInto(m, c) ==
  /\ matches' = m.matches
  /\ n_match' = m.n_match
  /\ panic' = c.panic
  /\ out' = [op |-> "capture_into", val |-> c.vec]

SetCaptureIntoOf(m, s) == SetCaptureInto(m, capture_into(m, s))

CaptureInto ==
  /\ Ready
  /\ \E s \in Subjects :
       /\ text' = s
       /\ SetCaptureIntoOf(matches_call(patt, cap, matches, n_match, s), s)
  /\ gs' = GsIdle /\ gm' = GmIdle
  /\ UNCHANGED <<patt, cap, handle, err>>

\* Pattern::match_captures(text).get(i), after a call of matches
SetGet(g, i) ==
  /\ panic' = g.panic
  /\ out' = [op |-> "get", val |-> <<i, g.s>>]

Get ==
  /\ Ready
  /\ out.op = "matches"
  /\ \E i \in 0..MaxCap : SetGet(get(matches, text, i), i)
  /\ UNCHANGED <<patt, cap, handle, err, matches, n_match, text, gs, gm>>

\* Substitute::new(t) and then Substitute::subst(&pattern, text)
SetSubst(r, repl) ==
  /\ panic' = r.panic
  /\ out' = [op |-> "subst", val |-> <<repl, r.res>>]

SubstWith(c) ==
  /\ c.err = Ok
  /\ c.panic = NoPanic
  /\ SetSubst(subst(c.repl, matches, text), c.repl)

Subst ==
  /\ Ready
  /\ out.op = "matches"
  /\ \E t \in Templates : SubstWith(generate_gsub_patterns(t))
  /\ UNCHANGED <<patt, cap, handle, err, matches, n_match, text, gs, gm>>

\* Pattern::gsub(s, t), up to the first test of its loop
GsubBeginWith(c, s, t) ==
  /\ c.err = Ok
  /\ panic' = c.panic
  /\ gs' = [pc |-> "loop", subject |-> s, tmpl |-> t, repl |-> c.repl,
            slice |-> s, res |-> <<>>, applied |-> FALSE, zero |-> FALSE]

GsubBegin ==
  /\ Ready
  /\ \E s \in Subjects, t \in Templates : GsubBeginWith(generate_gsub_patterns(t), s, t)
  /\ out' = NoOut /\ gm' = GmIdle
  /\ UNCHANGED <<patt, cap, handle, err, matches, n_match, text>>

\* the loop of gsub: its condition, then its body or the return
SetGsub(r) ==
  /\ SetHandle(r)
  /\ gs' = [gs EXCEPT
              !.pc = IF r.matched \/ r.panic # NoPanic THEN "loop" ELSE "done",
              !.slice = r.slice,
              !.res = r.res,
              !.applied = @ \/ r.matched,
              !.zero = @ \/ (r.matched
                              /\ capture(r.matches, 0).start = capture(r.matches, 0).end)]

GsubStep ==
  /\ handle = "ok" /\ panic = NoPanic
  /\ gs.pc = "loop"
  /\ Len(gs.res) <= MaxOut
  /\ text' = gs.slice
  /\ SetGsub(gsub_iter(matches_call(patt, cap, matches, n_match, gs.slice),
                       gs.slice, gs.res, gs.repl))
  /\ UNCHANGED <<patt, cap, handle, err, out, gm>>

\* Pattern::gmatch(s)
GMatchNew ==
  /\ Ready
  /\ \E s \in Subjects :
       gm' = [pc |-> "iter", subject |-> s, text |-> s, yields |-> <<>>]
  /\ out' = NoOut /\ gs' = GsIdle
  /\ UNCHANGED <<patt, cap, handle, err, matches, n_match, text, panic>>

\* GMatch::next
SetGMatch(r) ==
  /\ SetHandle(r)
  /\ gm' = [gm EXCEPT
              !.pc = IF r.some \/ r.panic # NoPanic THEN "iter" ELSE "done",
              !.text = r.text,
              !.yields =
                 IF r.some
                 THEN Append(@, [start |-> Len(gm.subject) - Len(gm.text)
                                             + capture(r.matches, 0).start,
                                 end |-> Len(gm.subject) - Len(gm.text)
                                           + capture(r.matches, 0).end,
                                 item |-> r.item])
                 ELSE @]

GMatchNext ==
  /\ handle = "ok" /\ panic = NoPanic
  /\ gm.pc = "iter"
  /\ Len(gm.yields) < MaxYield
  /\ text' = gm.text
  /\ SetGMatch(gmatch_next(matches_call(patt, cap, matches, n_match, gm.text), gm.text))
  /\ UNCHANGED <<patt, cap, handle, err, out, gs>>

(***************************************************************************)
(* The specifications.                                                     *)
(***************************************************************************)
\* construction alone, over raw byte strings
NextNew == New
SpecNew == InitWith(RawPatterns) /\ [][NextNew]_vars

\* construction, matching and the capture accessors
NextMatch == New \/ Matches \/ CaptureInto \/ Get \/ Subst
SpecMatch == InitWith(CapturePatterns) /\ [][NextMatch]_vars

\* construction and matching, over patterns of quantified items
NextQuant == New \/ Matches
SpecQuant == InitWith(QuantPatterns) /\ [][NextQuant]_vars

\* construction and gsub
NextGsub == New \/ GsubBegin \/ GsubStep
SpecGsub == InitWith(GlobalPatterns) /\ [][NextGsub]_vars

\* construction and gmatch
NextGMatch == New \/ GMatchNew \/ GMatchNext
SpecGMatch == InitWith(GlobalPatterns) /\ [][NextGMatch]_vars

\* every operation
Init == InitWith(GlobalPatterns)
Next == New \/ Matches \/ CaptureInto \/ Get \/ Subst \/ GsubBegin \/ GsubStep
          \/ GMatchNew \/ GMatchNext
Spec == Init /\ [][Next]_vars

(***************************************************************************)
(* The claims.                                                             *)
(***************************************************************************)
\* The items of a pattern, read off its bytes without any capture bookkeeping:
\* "open" and "close" are capture parentheses, "pos" is "()", "ref" is %n with
\* n in 1..9, "bad" is a malformed item (the scan cannot go past it), "other"
\* is anything else (%( and %) included, and the two bytes after %b).
Token(k, n) == [kind |-> k, n |-> n]

RECURSIVE Lex(_, _)
Lex(p, i) ==
  IF i > Len(p) THEN <<>>
  ELSE
    CASE p[i] = "%" /\ i = Len(p) -> <<Token("bad", 0)>>
      [] p[i] = "%" /\ i < Len(p) /\ p[i + 1] = "b" ->
           IF i + 3 > Len(p) THEN <<Token("bad", 0)>>
           ELSE <<Token("other", 0)>> \o Lex(p, i + 4)
      [] p[i] = "%" /\ i < Len(p) /\ p[i + 1] = "f" ->
           IF i + 2 > Len(p) \/ p[i + 2] # "[" \/ set_end(p, i + 3) = 0
           THEN <<Token("bad", 0)>>
           ELSE <<Token("other", 0)>> \o Lex(p, set_end(p, i + 3))
      [] p[i] = "%" /\ i < Len(p) /\ p[i + 1] \in DigitBytes \ {"0"} ->
           <<Token("ref", DigitVal(p[i + 1]))>> \o Lex(p, i + 2)
      [] p[i] = "%" /\ i < Len(p) /\ p[i + 1] \notin {"b", "f"} \cup (DigitBytes \ {"0"}) ->
           <<Token("other", 0)>> \o Lex(p, i + 2)
      [] p[i] = "[" ->
           IF set_end(p, i + 1) = 0 THEN <<Token("bad", 0)>>
           ELSE <<Token("other", 0)>> \o Lex(p, set_end(p, i + 1))
      [] p[i] = "(" ->
           IF i < Len(p) /\ p[i + 1] = ")"
           THEN <<Token("pos", 0)>> \o Lex(p, i + 2)
           ELSE <<Token("open", 0)>> \o Lex(p, i + 1)
      [] p[i] = ")" -> <<Token("close", 0)>> \o Lex(p, i + 1)
      [] OTHER -> <<Token("other", 0)>> \o Lex(p, i + 1)

Tokens(p) == Lex(p, 1)

\* the indices among 1..j of the tokens of the kinds K
Of(T, K, j) == {i \in 1..j : T[i].kind \in K}
\* how many captures are open after token j
Depth(T, j) == Cardinality(Of(T, {"open"}, j)) - Cardinality(Of(T, {"close"}, j))
\* the number of user captures of a pattern
UserCaptures(p) == Cardinality(Of(Tokens(p), {"open", "pos"}, Len(Tokens(p))))

\* capture n has been opened and closed before token j
ClosedBefore(T, n, j) ==
  \E o \in Of(T, {"open", "pos"}, j - 1) :
    /\ Cardinality(Of(T, {"open", "pos"}, o)) = n
    /\ \/ T[o].kind = "pos"
       \/ \E c \in (o + 1)..(j - 1) : T[c].kind = "close" /\ Depth(T, c) < Depth(T, o)

\* token j is a back-reference to a capture that is not closed there
BadRef(T, j) == T[j].kind = "ref" /\ ~ClosedBefore(T, T[j].n, j)
\* token j is a ")" with no capture open
BadClose(T, j) == T[j].kind = "close" /\ Depth(T, j - 1) = 0
\* token j opens a capture beyond the capacity N
BadOpen(T, j, N) ==
  T[j].kind \in {"open", "pos"} /\ Cardinality(Of(T, {"open", "pos"}, j)) > N
\* nothing is wrong with any token before j
CleanBefore(T, j, N) ==
  \A i \in 1..(j - 1) :
    T[i].kind # "bad" /\ ~BadRef(T, i) /\ ~BadClose(T, i) /\ ~BadOpen(T, i, N)

C8_BalancedCaptures ==
  handle # "none" =>
    LET T == Tokens(patt) IN
    /\ handle = "ok" =>
         /\ \A j \in 1..Len(T) : Depth(T, j) >= 0
         /\ Depth(T, Len(T)) = 0
    /\ \A j \in 1..Len(T) :
         (BadClose(T, j) /\ CleanBefore(T, j, cap))
           => (handle = "err" /\ err = Err("NoOpenCapture"))
    /\ (CleanBefore(T, Len(T) + 1, cap) /\ Depth(T, Len(T)) > 0)
         => (handle = "err" /\ err = Err("UnfinishedCapture"))
    /\ (handle = "err" /\ err.kind = "NoOpenCapture")
         => \E j \in 1..Len(T) : BadClose(T, j)
    /\ (handle = "err" /\ err.kind = "UnfinishedCapture") => Depth(T, Len(T)) > 0

\* C8, its case: "(dog%(" ends with its capture open, %( opening none
C8_Witness ==
  /\ patt = <<"(", "d", "o", "g", "%", "(">>
  /\ handle = "err"
  /\ err = Err("UnfinishedCapture")

\* every template item that refers to a capture
CaptureRefs(repl) == {repl[k].i : k \in {j \in 1..Len(repl) : repl[j].kind = "Capture"}}

\* C4: a handle exists only for a pattern whose user captures and slot 0 fit
\* the table (1 + captures <= N), and after matches the count n_match is 0 or
\* 1 + captures, at most N, with no too-many-captures failure.
C4_CapturesFit ==
  handle = "ok" =>
    /\ 1 + UserCaptures(patt) <= cap
    /\ ~(panic.kind = "expect" /\ panic.err.kind = "TooManyCaptures")
    /\ (out.op = "matches" /\ panic = NoPanic)
         => (n_match \in {0, 1 + UserCaptures(patt)} /\ n_match <= cap)

C6_WholeMatchIdentity ==
  (gs.pc = "done" /\ gs.tmpl = <<"%", "0">> /\ ~gs.zero /\ panic = NoPanic)
    => gs.res = gs.subject

\* C6, its case: a gsub with "%0" that replaced a match after an unmatched prefix
C6_Witness ==
  /\ gs.pc = "done" /\ gs.tmpl = <<"%", "0">> /\ ~gs.zero /\ panic = NoPanic
  /\ gs.applied
  /\ gs.subject = <<"b", "a">>
  /\ patt = <<"a">>

\* the pattern starts with a single-byte item under a quantifier *, + or -
QuantHead(p) ==
  /\ Len(p) >= 2
  /\ p[1] \notin {"(", ")", "%", "[", "^"}
  /\ p[2] \in {"*", "+", "-"}
\* the item matches each of the k bytes from offset st on
Run(s, p, st, k) == \A j \in 0..(k - 1) : singlematch(s, st + j, p, 1, 2)
\* the rest of the pattern, after the quantified item, tried after k repetitions
RestAt(s, p, N, st, k) ==
  do_match(s, p, N, st + k, 3, <<>>,
           IF singlematch(s, st, p, 1, 2) THEN MAXCCALLS - 1 ELSE MAXCCALLS)
\* the repetition counts from offset st for which the rest of the pattern matches
Counts(s, p, N, st) ==
  {k \in (IF p[2] = "+" THEN 1 ELSE 0)..(Len(s) - st) :
     Run(s, p, st, k) /\ RestAt(s, p, N, st, k).tag = "found"}
Largest(K) == CHOOSE k \in K : \A j \in K : j <= k
Smallest(K) == CHOOSE k \in K : \A j \in K : k <= j

C1_TailShrinks ==
  [][(gs.pc = "loop" /\ gs'.pc = "loop" /\ panic' = NoPanic)
       => Len(gs'.slice) < Len(gs.slice)]_vars

\* C2: every call of GMatch::next that yields a match shortens the remaining
\* text by at least one byte, so the iterator is finite.
C2_NextShortens ==
  [][(gm.pc = "iter" /\ Len(gm'.yields) > Len(gm.yields))
       => Len(gm'.text) < Len(gm.text)]_vars

\* C3: a runtime condition of the interpreter (TooComplex, TooManyCaptures,
\* CapLen) comes back from the match call as an error and never ends the program.
C3_ConditionsAreReturned ==
  ~(panic.kind = "expect"
    /\ panic.err.kind \in {"TooComplex", "TooManyCaptures", "CapLen"})

\* C10: while gsub applies its template, every capture reference %n reads a slot
\* the current match filled: n < n_match and n < N.
C10_RefsReadFilledSlots ==
  (gs.pc = "loop" /\ gs.applied)
    => \A n \in CaptureRefs(gs.repl) : n < n_match /\ n < cap

=============================================================================
